---- MODULE Spec2Model ----
(***************************************************************************)
(* PageRank (src/pagerank.py): transition_model, sample_pagerank and       *)
(* iterate_pagerank as a state machine.  One behaviour is one call of one  *)
(* of the two estimators on a corpus chosen in Init.                       *)
(*                                                                         *)
(* Python floats are modelled as exact rationals <<numerator, denominator>>*)
(* in lowest terms with a positive denominator.                            *)
(***************************************************************************)
EXTENDS Integers, FiniteSets

\* ------------------------------------------------------------------------
\* Bounds of the model
\* ------------------------------------------------------------------------
\* page names of the corpora explored
Pages == {"A", "B", "C"}
\* sample_pagerank is called with n in -1..MaxSamples
MaxSamples == 2
\* the sweep counter (not a program variable) stops counting here
MaxSweeps == 12

\* ------------------------------------------------------------------------
\* Exact rational arithmetic
\* ------------------------------------------------------------------------
\* The operations are functions, so that an argument is evaluated once,
\* before the operation is applied to it.
Abs(a) == IF a < 0 THEN -a ELSE a

gcd[a \in Nat, b \in Nat] == IF b = 0 THEN a ELSE gcd[b, a % b]

\* the rational a/b (b # 0) in lowest terms
rat[a \in Int, b \in Int] ==
    LET g == gcd[Abs(a), Abs(b)]
    IN  IF b < 0 THEN <<-(a \div g), -(b \div g)>> ELSE <<a \div g, b \div g>>
Rat(a, b) == rat[a, b]

Zero == <<0, 1>>
One == <<1, 1>>

radd[x \in Int \X Int, y \in Int \X Int] ==
    LET g == gcd[x[2], y[2]]
    IN  rat[x[1] * (y[2] \div g) + y[1] * (x[2] \div g), (x[2] \div g) * y[2]]
RAdd(x, y) == radd[x, y]

rneg[x \in Int \X Int] == <<-x[1], x[2]>>
RSub(x, y) == radd[x, rneg[y]]
rabs[x \in Int \X Int] == <<Abs(x[1]), x[2]>>
RAbs(x) == rabs[x]

rmul[x \in Int \X Int, y \in Int \X Int] ==
    LET g1 == gcd[Abs(x[1]), y[2]]
        g2 == gcd[Abs(y[1]), x[2]]
    IN  rat[(x[1] \div g1) * (y[1] \div g2), (x[2] \div g2) * (y[2] \div g1)]
RMul(x, y) == rmul[x, y]

\* x / k for an integer k # 0
RDivInt(x, k) == rmul[x, rat[1, k]]

\* a/b > c/d for a, c >= 0 and b, d > 0, by the continued fractions of the
\* two sides (no product is formed)
fracGt[a \in Nat, b \in Nat, c \in Nat, d \in Nat] ==
    IF (a \div b) # (c \div d) THEN (a \div b) > (c \div d)
    ELSE IF a % b = 0 THEN FALSE
    ELSE IF c % d = 0 THEN TRUE
    ELSE fracGt[d, c % d, b, a % b]

rgt[x \in Int \X Int, y \in Int \X Int] ==
    IF x[1] >= 0 /\ y[1] >= 0 THEN fracGt[x[1], x[2], y[1], y[2]]
    ELSE IF x[1] >= 0 THEN TRUE
    ELSE IF y[1] >= 0 THEN FALSE
    ELSE fracGt[-y[1], y[2], -x[1], x[2]]
RGt(x, y) == rgt[x, y]

RGeq(x, y) == ~rgt[y, x]

\* sum of f[p] over p in S
RECURSIVE RSum(_, _)
RSum(f, S) ==
    IF S = {} THEN Zero
    ELSE LET p == CHOOSE q \in S : TRUE IN RAdd(f[p], RSum(f, S \ {p}))

RECURSIVE ISum(_, _)
ISum(f, S) ==
    IF S = {} THEN 0
    ELSE LET p == CHOOSE q \in S : TRUE IN f[p] + ISum(f, S \ {p})

\* ------------------------------------------------------------------------
\* Inputs
\* ------------------------------------------------------------------------
\* a corpus maps each of its pages to the set of pages it links to
NodeSets == {{}, {"A"}, {"A", "B"}, Pages}
Corpora == UNION {[P -> SUBSET P] : P \in NodeSets}

Half == <<1, 2>>
ValidDampings == {Zero, Half, One}
InvalidDampings == {<<-1, 2>>, <<3, 2>>}

\* every page links to exactly one page
Functional(c) == \A p \in DOMAIN c : Cardinality(c[p]) = 1

\* The damping factors iterate_pagerank is run with.  With d = 1 on three
\* pages the ranks of a corpus that is not functional have denominators
\* beyond the integers TLC computes with, and with d = 3/2 the ranks
\* diverge, so those runs are left out.
IterateInputs ==
    {in \in Corpora \X (ValidDampings \cup {<<-1, 2>>}) :
        in[2] = One => (Cardinality(DOMAIN in[1]) <= 2 \/ Functional(in[1]))}

SampleInputs == Corpora \X (ValidDampings \cup InvalidDampings)

NoPage == "-"
Empty == [p \in {} |-> Zero]

VARIABLES
    op,              \* "sample" or "iterate": the estimator called
    caller_corpus,   \* the corpus as the caller passed it (never assigned)
    corpus,          \* the dict object `corpus` (shared with the caller)
    damping_factor,
    n,               \* sample_pagerank's n
    pc,
    err,             \* the exception raised, "" when none
    counts, page, i, probs,            \* sample_pagerank's locals
    pagerank,                          \* the rank mapping (both estimators)
    new_ranks, converge,               \* iterate_pagerank's locals
    sweeps                             \* completed sweeps (counter of the model)

vars == <<op, caller_corpus, corpus, damping_factor, n, pc, err, counts,
          page, i, probs, pagerank, new_ranks, converge, sweeps>>

sampleVars == <<counts, page, i, probs>>
iterVars == <<new_ranks, converge, sweeps>>
inputVars == <<op, caller_corpus, damping_factor, n>>

\* no call has been made yet
Init ==
    /\ op = "none"
    /\ corpus = Empty
    /\ caller_corpus = Empty
    /\ damping_factor = Zero
    /\ n = 0
    /\ pc = "idle"
    /\ err = ""
    /\ counts = Empty
    /\ page = NoPage
    /\ i = 0
    /\ probs = Empty
    /\ pagerank = Empty
    /\ new_ranks = Empty
    /\ converge = FALSE
    /\ sweeps = 0

\* main, lines 14 and 18: the caller calls sample_pagerank(corpus, d, n) or
\* iterate_pagerank(corpus, d)
Call ==
    /\ pc = "idle"
    /\ \/ /\ op' = "sample"
          /\ \E in \in SampleInputs : corpus' = in[1] /\ damping_factor' = in[2]
          /\ n' \in -1..MaxSamples
       \/ /\ op' = "iterate"
          /\ \E in \in IterateInputs : corpus' = in[1] /\ damping_factor' = in[2]
          /\ n' = n
    /\ caller_corpus' = corpus'
    /\ pc' = "start"
    /\ UNCHANGED <<err, sampleVars, pagerank, iterVars>>

\* ------------------------------------------------------------------------
\* transition_model
\* ------------------------------------------------------------------------
\* variant: the share of a link is taken over one page too many
LinkShare_OffByOne(links, d) == RDivInt(d, Cardinality(links) + 1)

\* prob[link] += damping_factor / len(links), for a link of the page
LinkShare(links, d) == RDivInt(d, Cardinality(links))

transition_model(c, pg, d) ==
    LET N == Cardinality(DOMAIN c)
        links == c[pg]
    IN  IF links # {}
        THEN [p \in DOMAIN c |->
                IF p \in links
                THEN RAdd(RDivInt(RSub(One, d), N), LinkShare(links, d))
                ELSE RDivInt(RSub(One, d), N)]
        ELSE [p \in DOMAIN c |-> Rat(1, N)]

\* ------------------------------------------------------------------------
\* sample_pagerank
\* ------------------------------------------------------------------------
\* random.choices(population, weights, k=1)[0]: a page of positive weight.
\* With a negative weight the cumulative weights are not sorted and the
\* bisection may stop at any page.
Draws(pr) ==
    IF \A p \in DOMAIN pr : pr[p][1] >= 0
    THEN {p \in DOMAIN pr : pr[p][1] > 0}
    ELSE DOMAIN pr

\* variant: the counter is set instead of incremented
Visit_Assign(cnt, pg) == [cnt EXCEPT ![pg] = 1]

\* counts[page] += 1
Visit(cnt, pg) == [cnt EXCEPT ![pg] = @ + 1]

\* lines 84-86: counts, pages, page = random.choice(pages)
SampleStart ==
    /\ pc = "start" /\ op = "sample"
    /\ counts' = [p \in DOMAIN corpus |-> 0]
    /\ IF DOMAIN corpus = {}
       THEN /\ pc' = "error"
            /\ err' = "IndexError"
            /\ page' = page
       ELSE /\ pc' = "s_loop"
            /\ err' = err
            /\ page' \in DOMAIN corpus
    /\ UNCHANGED <<inputVars, corpus, i, probs, pagerank, iterVars>>

\* lines 87-89: one more iteration: count the visit, compute the distribution
SampleVisit ==
    /\ pc = "s_loop" /\ i < n
    /\ counts' = Visit(counts, page)
    /\ probs' = transition_model(corpus, page, damping_factor)
    /\ pc' = "s_draw"
    /\ UNCHANGED <<inputVars, corpus, err, page, i, pagerank, iterVars>>

\* lines 90-94: draw the next page
SampleDraw ==
    /\ pc = "s_draw"
    /\ page' \in Draws(probs)
    /\ i' = i + 1
    /\ pc' = "s_loop"
    /\ UNCHANGED <<inputVars, corpus, err, counts, probs, pagerank, iterVars>>

\* lines 96-97: range(n) is exhausted; pagerank = {page: count / n}
SampleReturn ==
    /\ pc = "s_loop" /\ i >= n
    /\ IF n = 0
       THEN /\ pc' = "error"
            /\ err' = "ZeroDivisionError"
            /\ pagerank' = pagerank
       ELSE /\ pc' = "done"
            /\ err' = err
            /\ pagerank' = [p \in DOMAIN counts |-> Rat(counts[p], n)]
    /\ UNCHANGED <<inputVars, corpus, sampleVars, iterVars>>

\* ------------------------------------------------------------------------
\* iterate_pagerank
\* ------------------------------------------------------------------------
\* variant: a threshold of 0.01
Tolerance_Coarse == <<1, 100>>

\* line 126: the literal 0.001
Tolerance == <<1, 1000>>

\* variant: the normalization is left out
Normalize_Skip(c) == c

\* variant: a page without links gets links to every other page
Normalize_Others(c) ==
    [p \in DOMAIN c |-> IF c[p] = {} THEN DOMAIN c \ {p} ELSE c[p]]

\* lines 112-114: a page without links gets links to every page
Normalize(c) == [p \in DOMAIN c |-> IF c[p] = {} THEN DOMAIN c ELSE c[p]]

\* lines 120-123: total of pagerank[i] / len(corpus[i]) over the pages i
\* that link to pg
Total(c, rank, pg) ==
    LET from == {q \in DOMAIN c : pg \in c[q]}
    IN  RSum([q \in from |-> RDivInt(rank[q], Cardinality(c[q]))], from)

\* variant: a rank already written in this sweep is read instead of the
\* previous sweep's
NewRank_InPlace(c, rank, d, pg) ==
    LET mixed == [q \in DOMAIN rank |->
                    IF q \in DOMAIN new_ranks THEN new_ranks[q] ELSE rank[q]]
    IN  RAdd(RDivInt(RSub(One, d), Cardinality(DOMAIN c)), RMul(d, Total(c, mixed, pg)))

\* line 124
NewRank(c, rank, d, pg) ==
    RAdd(RDivInt(RSub(One, d), Cardinality(DOMAIN c)), RMul(d, Total(c, rank, pg)))

\* line 126
Changed(new_rank, old_rank) == RGt(RAbs(RSub(new_rank, old_rank)), Tolerance)

\* lines 109-111
IterateStart ==
    /\ pc = "start" /\ op = "iterate"
    /\ pagerank' = [p \in DOMAIN corpus |-> Rat(1, Cardinality(DOMAIN corpus))]
    /\ converge' = FALSE
    /\ pc' = "i_norm"
    /\ UNCHANGED <<inputVars, corpus, err, sampleVars, new_ranks, sweeps>>

\* lines 112-114: the loop assigns into the caller's dict
IterateNormalize ==
    /\ pc = "i_norm"
    /\ corpus' = Normalize(corpus)
    /\ pc' = "i_while"
    /\ UNCHANGED <<inputVars, err, sampleVars, pagerank, iterVars>>

\* lines 116-118: the loop test succeeds, a sweep begins
SweepBegin ==
    /\ pc = "i_while" /\ ~converge
    /\ new_ranks' = Empty
    /\ converge' = TRUE
    /\ pc' = "i_for"
    /\ UNCHANGED <<inputVars, corpus, err, sampleVars, pagerank, sweeps>>

\* lines 119-128: the body of the for loop for one page not yet visited
SweepPage ==
    /\ pc = "i_for"
    /\ \E pg \in DOMAIN corpus \ DOMAIN new_ranks :
          LET new_rank == NewRank(corpus, pagerank, damping_factor, pg)
          IN  /\ converge' = IF Changed(new_rank, pagerank[pg]) THEN FALSE ELSE converge
              /\ new_ranks' = [q \in DOMAIN new_ranks \cup {pg} |->
                                  IF q = pg THEN new_rank ELSE new_ranks[q]]
    /\ UNCHANGED <<inputVars, corpus, pc, err, sampleVars, pagerank, sweeps>>

\* variant: the ranks of the sweep are dropped
SweepEnd_KeepRanks ==
    /\ pc = "i_for"
    /\ DOMAIN new_ranks = DOMAIN corpus
    /\ sweeps' = IF sweeps < MaxSweeps THEN sweeps + 1 ELSE sweeps
    /\ pc' = "i_while"
    /\ UNCHANGED <<inputVars, corpus, err, sampleVars, pagerank, new_ranks, converge>>

\* line 129: the for loop is over; pagerank = new_ranks.copy()
SweepEnd ==
    /\ pc = "i_for"
    /\ DOMAIN new_ranks = DOMAIN corpus
    /\ pagerank' = new_ranks
    /\ sweeps' = IF sweeps < MaxSweeps THEN sweeps + 1 ELSE sweeps
    /\ pc' = "i_while"
    /\ UNCHANGED <<inputVars, corpus, err, sampleVars, new_ranks, converge>>

\* lines 116, 131: the loop test fails; return pagerank
IterateReturn ==
    /\ pc = "i_while" /\ converge
    /\ pc' = "done"
    /\ UNCHANGED <<inputVars, corpus, err, sampleVars, pagerank, iterVars>>

Next ==
    \/ Call
    \/ SampleStart
    \/ SampleVisit
    \/ SampleDraw
    \/ SampleReturn
    \/ IterateStart
    \/ IterateNormalize
    \/ SweepBegin
    \/ SweepPage
    \/ SweepEnd
    \/ IterateReturn

Spec == Init /\ [][Next]_vars

\* the interpreter keeps executing the call until it returns or raises
FairSpec == Spec /\ WF_vars(Next)


\* ------------------------------------------------------------------------
\* iterate_pagerank as a function of its arguments
\* ------------------------------------------------------------------------
\* lines 119-128 for every page: the mapping one sweep produces
Sweep(c, rank, d) == [p \in DOMAIN c |-> NewRank(c, rank, d, p)]

\* lines 118, 126-127: converge after a sweep from rank to new
Converged(rank, new) == \A p \in DOMAIN rank : ~Changed(new[p], rank[p])

\* lines 116-131, at most fuel sweeps after the k already made
RECURSIVE IterateLoop(_, _, _, _, _)
IterateLoop(c, rank, d, k, fuel) ==
    IF fuel = 0 THEN [done |-> FALSE, sweeps |-> k, pagerank |-> rank]
    ELSE LET new == Sweep(c, rank, d)
         IN  IF Converged(rank, new)
             THEN [done |-> TRUE, sweeps |-> k + 1, pagerank |-> new]
             ELSE IterateLoop(c, new, d, k + 1, fuel - 1)

\* lines 109-131
iterate_pagerank(c, d, fuel) ==
    IterateLoop(Normalize(c),
                [p \in DOMAIN c |-> Rat(1, Cardinality(DOMAIN c))], d, 0, fuel)

\* ------------------------------------------------------------------------
\* Properties
\* ------------------------------------------------------------------------
N == Cardinality(DOMAIN caller_corpus)
InUnit(x) == RGeq(x, Zero) /\ RGeq(One, x)
DampingValid == InUnit(damping_factor)
Returned == pc = "done"
Dangling == {p \in DOMAIN caller_corpus : caller_corpus[p] = {}}
\* the caller's graph with the links of p set to every page
FixDangling(c, p) == [c EXCEPT ![p] = DOMAIN c]

\* C1: when iterate_pagerank has returned on a non-empty graph, the caller's
\* graph maps every page to the links it had before the call.
C1_CallerGraphUnchanged ==
    (op = "iterate" /\ N >= 1 /\ Returned) => corpus = caller_corpus

\* C2: on a graph with no pages neither estimator returns a rank vector;
\* both end with an error.
C2_EmptyGraphFails ==
    (N = 0 /\ pc \in {"done", "error"}) => (pc = "error" /\ err # "")

\* C3: sample_pagerank with n <= 0, and either estimator with a damping
\* factor outside [0,1], never returns a rank vector.
C3_InvalidParametersRejected ==
    ((op = "sample" /\ n <= 0) \/ ~DampingValid) => ~Returned

\* C4: for a damping factor in [0,1], the distribution transition_model
\* returned for the current page is defined on exactly the pages of the
\* corpus, is nowhere negative, sums to 1, and gives q the value
\* (1-d)/N + d/k (q linked) or (1-d)/N (q not linked) when the page
\* has k >= 1 links, and 1/N when it has none.
C4_Expected(q) ==
    LET links == corpus[page]
        k == Cardinality(links)
        dn == damping_factor[1]
        dd == damping_factor[2]
    IN  IF k = 0 THEN Rat(1, N)
        ELSE Rat((dd - dn) * k + (IF q \in links THEN dn * N ELSE 0), dd * N * k)

C4_TransitionDistribution ==
    (op = "sample" /\ pc = "s_draw" /\ DampingValid) =>
        /\ DOMAIN probs = DOMAIN corpus
        /\ \A q \in DOMAIN probs : RGeq(probs[q], Zero)
        /\ RSum(probs, DOMAIN probs) = One
        /\ \A q \in DOMAIN probs : probs[q] = C4_Expected(q)

C4_Witness ==
    /\ op = "sample" /\ pc = "s_draw" /\ damping_factor = Half
    /\ N = 3 /\ Cardinality(corpus[page]) = 2
    /\ \E q \in DOMAIN probs : probs[q] = <<5, 12>>

\* C5: in sample_pagerank with n > 0 on a non-empty graph the visit counters
\* sum to i after i iterations (0 <= i <= n); on return they sum to n,
\* rank[p] = visits[p] / n for every page, and the ranks sum to 1.
C5_VisitCounters ==
    (op = "sample" /\ n > 0 /\ N >= 1) =>
        /\ pc = "s_loop" => (i \in 0..n /\ ISum(counts, DOMAIN counts) = i)
        /\ Returned =>
              /\ ISum(counts, DOMAIN counts) = n
              /\ DOMAIN pagerank = DOMAIN caller_corpus
              /\ \A p \in DOMAIN pagerank : pagerank[p] = Rat(counts[p], n)
              /\ RSum(pagerank, DOMAIN pagerank) = One

C5_Witness ==
    /\ op = "sample" /\ Returned /\ n >= 2 /\ N = 3
    /\ \E p \in DOMAIN counts : counts[p] = n

\* C6: for a damping factor in [0,1] on a non-empty graph, the rank mapping of
\* iterate_pagerank sums to 1 and has every value in [0,1], from its
\* initialization on, after every sweep and when it is returned.
C6_RankIsDistribution ==
    (op = "iterate" /\ N >= 1 /\ DampingValid /\ pc # "start") =>
        /\ DOMAIN pagerank = DOMAIN caller_corpus
        /\ RSum(pagerank, DOMAIN pagerank) = One
        /\ \A p \in DOMAIN pagerank : InUnit(pagerank[p])

C6_Witness ==
    /\ op = "iterate" /\ Returned /\ damping_factor = Half /\ N = 3
    /\ Dangling # {} /\ sweeps >= 3
    /\ \E p, q \in DOMAIN pagerank : pagerank[p] # pagerank[q]


IterateCall == op = "iterate" /\ N >= 1
BelowOne == RGeq(damping_factor, Zero) /\ RGt(One, damping_factor)
\* no page's rank changes by more than 0.001 from rank to new
WithinTolerance(rank, new) ==
    \A p \in DOMAIN rank : ~RGt(RAbs(RSub(new[p], rank[p])), <<1, 1000>>)

\* C7: for 0 <= d < 1 on a non-empty graph iterate_pagerank eventually
\* returns; every sweep replaces the ranks by the sweep's mapping and marks
\* convergence exactly when no rank changed by more than 0.001; the call
\* returns after a sweep exactly when that sweep converged, and returns the
\* mapping of that sweep.
C7_ConvergesAndStops ==
    /\ (IterateCall /\ BelowOne) ~> Returned
    /\ [][(IterateCall /\ BelowOne /\ pc = "i_for" /\ pc' = "i_while") =>
            /\ pagerank' = new_ranks
            /\ converge <=> WithinTolerance(pagerank, new_ranks)]_vars
    /\ [][(IterateCall /\ BelowOne /\ pc = "i_while") =>
            /\ Returned' <=> (sweeps >= 1 /\ converge)
            /\ pagerank' = pagerank]_vars

C7_Witness ==
    /\ IterateCall /\ Returned /\ damping_factor = Half
    /\ N = 3 /\ sweeps >= 4

\* C8: for a graph with a dangling page p and the graph that differs only in
\* that p links to every page, iterate_pagerank makes the same number of
\* sweeps and returns the same ranks for both, and transition_model gives
\* the same distribution for p in both.
C8_DanglingEquivalence ==
    \A p \in Dangling :
        /\ (IterateCall /\ Returned /\ sweeps < MaxSweeps) =>
              LET r == iterate_pagerank(FixDangling(caller_corpus, p),
                                        damping_factor, sweeps)
              IN  r.done /\ r.sweeps = sweeps /\ r.pagerank = pagerank
        /\ (op = "sample" /\ pc = "s_draw" /\ page = p) =>
              probs = transition_model(FixDangling(caller_corpus, p), p,
                                       damping_factor)

C8_Witness ==
    /\ IterateCall /\ Returned /\ damping_factor = Half /\ N = 3
    /\ Cardinality(Dangling) = 1 /\ sweeps >= 3 /\ sweeps < MaxSweeps

\* C9: during a sweep every rank already written is
\* (1-d)/N + d * (sum of rank[q]/|out'[q]| over the pages q linking to p)
\* of the previous sweep's ranks, whatever the order of the pages.
C9_Recurrence(p) ==
    LET from == {q \in DOMAIN corpus : p \in corpus[q]}
        share == [q \in from |-> RMul(pagerank[q], Rat(1, Cardinality(corpus[q])))]
    IN  RAdd(RMul(RSub(One, damping_factor), Rat(1, N)),
             RMul(damping_factor, RSum(share, from)))

C9_SweepReadsPreviousRanks ==
    (IterateCall /\ pc = "i_for") =>
        \A p \in DOMAIN new_ranks : new_ranks[p] = C9_Recurrence(p)

C9_Witness ==
    /\ IterateCall /\ pc = "i_for" /\ damping_factor = Half /\ N = 3
    /\ sweeps >= 1 /\ DOMAIN new_ranks = DOMAIN corpus
    /\ \A p \in DOMAIN corpus : new_ranks[p] # pagerank[p]

\* C10 (as stated): iterate_pagerank returns for every damping factor in
\* [0,1], d = 1 included, on every non-empty graph.
C10_TerminatesUpToOne ==
    (IterateCall /\ DampingValid) ~> Returned

\* C10 (amended): iterate_pagerank returns for every damping factor d with
\* 0 <= d < 1 on every non-empty graph.
C10_TerminatesBelowOne ==
    [](IterateCall /\ BelowOne => <>Returned)

C10_Witness ==
    /\ IterateCall /\ Returned /\ damping_factor = Half /\ N = 3
    /\ sweeps >= 5 /\ Dangling = {}

====
